---- MODULE Spec2Model ----
(***************************************************************************)
(* Model of src/src/app/page.tsx: the LoginSystem form orchestrator (mode, *)
(* value record, error map), its change handler, its validation routine,   *)
(* the Form wrapper that gates submission, and the controls that emit      *)
(* change events.  JavaScript strings are TLA+ strings; a JavaScript       *)
(* object with optional keys (the error map, a change event's target) is a *)
(* function whose DOMAIN is its key set.                                    *)
(*                                                                         *)
(* formType, formData, errors : the three useState cells of LoginSystem.   *)
(* selects   : the local state (isOpen, searchTerm) of every mounted       *)
(*             Select instance, by instance.                               *)
(* listeners : the mousedown listeners registered on document, as the      *)
(*             instances that registered them, in registration order.      *)
(* effect    : what the last step made visible outside the component.      *)
(* gesture   : the user gesture the last step handled, with the change     *)
(*             events the controls passed to their onChange prop in it.    *)
(***************************************************************************)
EXTENDS Integers, Sequences, FiniteSets, TLC

VARIABLES formType, formData, errors, effect, selects, listeners, gesture

vars == <<formType, formData, errors, effect, selects, listeners, gesture>>

(***************************************************************************)
(* Bounds of the model.                                                    *)
(***************************************************************************)
\* longest email drawn for the validation-only specification
MaxEmailLen == 5
\* longest password / confirmation drawn for the validation-only specification
MaxPwLen == 9
\* how many options of the gender and marketing lists the user picks from in
\* the model: the first NumOptions of the list
NumOptions == 1

(***************************************************************************)
(* Strings.                                                                *)
(***************************************************************************)
CharAt(s, i) == SubSeq(s, i, i)

RECURSIVE Repeat(_, _)
Repeat(c, n) == IF n = 0 THEN "" ELSE Repeat(c, n - 1) \o c

RECURSIVE StringsUpTo(_, _)
StringsUpTo(alphabet, n) ==
    IF n = 0 THEN {""}
    ELSE LET shorter == StringsUpTo(alphabet, n - 1)
         IN  shorter \cup {s \o c : s \in shorter, c \in alphabet}

\* the characters \S of a JavaScript regular expression excludes
WhiteSpace == {" ", "\t", "\n", "\r"}

(***************************************************************************)
(* /\S+@\S+\.\S+/.test(s): an unanchored search, run as the position       *)
(* automaton of the pattern.  State 0 is "nothing matched yet" and is      *)
(* re-entered at every character (the search may start anywhere); 1 = in   *)
(* the first \S+, 2 = after '@', 3 = in the second \S+, 4 = after '.',     *)
(* 5 = in the third \S+ (accepting).                                       *)
(***************************************************************************)
\* variant: the dot of the pattern left unescaped (/\S+@\S+.\S+/), so any
\* character but a line terminator stands where the '.' must be
RegexStep_UnescapedDot(q, c) ==
    LET nonSpace == c \notin WhiteSpace
    IN  CASE q = 0 -> IF nonSpace THEN {1} ELSE {}
          [] q = 1 -> (IF nonSpace THEN {1} ELSE {}) \cup (IF c = "@" THEN {2} ELSE {})
          [] q = 2 -> IF nonSpace THEN {3} ELSE {}
          [] q = 3 -> (IF nonSpace THEN {3} ELSE {})
                          \cup (IF c \notin {"\n", "\r"} THEN {4} ELSE {})
          [] q = 4 -> IF nonSpace THEN {5} ELSE {}
          [] q = 5 -> {5}

RegexStep(q, c) ==
    LET nonSpace == c \notin WhiteSpace
    IN  CASE q = 0 -> IF nonSpace THEN {1} ELSE {}
          [] q = 1 -> (IF nonSpace THEN {1} ELSE {}) \cup (IF c = "@" THEN {2} ELSE {})
          [] q = 2 -> IF nonSpace THEN {3} ELSE {}
          [] q = 3 -> (IF nonSpace THEN {3} ELSE {}) \cup (IF c = "." THEN {4} ELSE {})
          [] q = 4 -> IF nonSpace THEN {5} ELSE {}
          [] q = 5 -> {5}

RECURSIVE RegexRun(_, _, _)
RegexRun(s, i, active) ==
    IF 5 \in active THEN TRUE
    ELSE IF i > Len(s) THEN FALSE
    ELSE RegexRun(s, i + 1,
                  UNION {RegexStep(q, CharAt(s, i)) : q \in active \cup {0}})

EmailRegexTest(s) == RegexRun(s, 1, {})

(***************************************************************************)
(* LoginSystem state.                                                      *)
(***************************************************************************)
FormTypes == {"login", "register", "forgot"}

EmptyErrors == [k \in {} |-> ""]

\* variant: the value record created without the role default
InitialFormData_NoRoleDefault ==
    [email |-> "", password |-> "", confirmPassword |-> "", name |-> "",
     gender |-> "", role |-> "", rememberMe |-> FALSE,
     acceptTerms |-> FALSE, bio |-> "", interests |-> <<>>,
     marketingPreferences |-> ""]

InitialFormData ==
    [email |-> "", password |-> "", confirmPassword |-> "", name |-> "",
     gender |-> "", role |-> "user", rememberMe |-> FALSE,
     acceptTerms |-> FALSE, bio |-> "", interests |-> <<>>,
     marketingPreferences |-> ""]

genderOptions == <<"male", "female", "other", "prefer-not-to-say">>
interestOptions == <<"technology", "sports", "music", "art", "science">>
marketingOptions == <<"email", "sms", "none">>

\* what a step made visible outside the component state: the submit event's
\* default action suppressed, the onSubmit prop called, the console.log
\* argument and the alert text (at most one of each per step)
NoEffect == [prevented |-> FALSE, invoked |-> FALSE, logged |-> <<>>, alert |-> <<>>]

(***************************************************************************)
(* validateForm: the fresh error map of one validation pass, built by the  *)
(* code's six blocks in order.                                             *)
(***************************************************************************)
\* variant: the required branch missing, so an empty email fails the pattern
EmailErrors_NoRequiredBranch(fd) ==
    IF ~EmailRegexTest(fd.email) THEN [email |-> "Email is invalid"]
    ELSE EmptyErrors

EmailErrors(fd) ==
    IF fd.email = "" THEN [email |-> "Email is required"]
    ELSE IF ~EmailRegexTest(fd.email) THEN [email |-> "Email is invalid"]
    ELSE EmptyErrors

\* variant: the length check as a separate if, overwriting the required message
PasswordErrors_LengthOverrides(ft, fd) ==
    IF ft = "register" /\ Len(fd.password) < 8
    THEN [password |-> "Password must be at least 8 characters"]
    ELSE IF ft # "forgot" /\ fd.password = "" THEN [password |-> "Password is required"]
    ELSE EmptyErrors

PasswordErrors(ft, fd) ==
    IF ft # "forgot" /\ fd.password = "" THEN [password |-> "Password is required"]
    ELSE IF ft = "register" /\ Len(fd.password) < 8
         THEN [password |-> "Password must be at least 8 characters"]
    ELSE EmptyErrors

\* variant: the confirmation compared in every mode
ConfirmPasswordErrors_AllModes(ft, fd) ==
    IF fd.password # fd.confirmPassword
    THEN [confirmPassword |-> "Passwords do not match"]
    ELSE EmptyErrors

ConfirmPasswordErrors(ft, fd) ==
    IF ft = "register" /\ fd.password # fd.confirmPassword
    THEN [confirmPassword |-> "Passwords do not match"]
    ELSE EmptyErrors

NameErrors(ft, fd) ==
    IF ft = "register" /\ fd.name = "" THEN [name |-> "Name is required"]
    ELSE EmptyErrors

\* variant: gender required in every mode
GenderErrors_AllModes(ft, fd) ==
    IF fd.gender = "" THEN [gender |-> "Gender is required"]
    ELSE EmptyErrors

GenderErrors(ft, fd) ==
    IF ft = "register" /\ fd.gender = "" THEN [gender |-> "Gender is required"]
    ELSE EmptyErrors

AcceptTermsErrors(ft, fd) ==
    IF ft = "register" /\ ~fd.acceptTerms
    THEN [acceptTerms |-> "You must accept the terms"]
    ELSE EmptyErrors

\* variant: a validation pass that also demands a bio in register mode
validateForm_RequiresBio(ft, fd) ==
    EmailErrors(fd) @@ PasswordErrors(ft, fd) @@ ConfirmPasswordErrors(ft, fd)
        @@ NameErrors(ft, fd) @@ GenderErrors(ft, fd) @@ AcceptTermsErrors(ft, fd)
        @@ (IF ft = "register" /\ fd.bio = ""
            THEN [bio |-> "Bio is required"] ELSE EmptyErrors)

validateForm(ft, fd) ==
    EmailErrors(fd) @@ PasswordErrors(ft, fd) @@ ConfirmPasswordErrors(ft, fd)
        @@ NameErrors(ft, fd) @@ GenderErrors(ft, fd) @@ AcceptTermsErrors(ft, fd)

\* variant: the flag counts only the keys that hold a message
isFormValid_IgnoresBlank(errs) == Cardinality({k \in DOMAIN errs : errs[k] # ""}) = 0

\* Object.keys(errors).length === 0
isFormValid(errs) == Cardinality(DOMAIN errs) = 0

(***************************************************************************)
(* Change events, as each control builds them.  A key the control does not *)
(* set is absent from the event (undefined in the code).                   *)
(***************************************************************************)
Undefined == "undefined"

Field(e, k) == IF k \in DOMAIN e THEN e[k] ELSE Undefined

\* <input type=...>: the native event target (checked is false on a text input)
InputEvent(name, type, value) ==
    [name |-> name, value |-> value, type |-> type, checked |-> FALSE]

\* <textarea>: the native event target has no checked property
TextareaEvent(name, value) ==
    [name |-> name, value |-> value, type |-> "textarea"]

\* <input type="radio" value=...> of a RadioGroup, on being selected
RadioEvent(name, value) ==
    [name |-> name, value |-> value, type |-> "radio", checked |-> TRUE]

\* <input type="checkbox"> of Checkbox: the browser flips the checked flag
CheckboxEvent(name, checked) ==
    [name |-> name, value |-> "on", type |-> "checkbox", checked |-> ~checked]

Includes(seq, v) == \E i \in 1..Len(seq) : seq[i] = v

Filter(seq, v) == SelectSeq(seq, LAMBDA x : x # v)

\* variant: a newly checked option is put first, [optionValue, ...value]
CheckboxGroup_handleChange_Prepend(name, value, checked, optionValue) ==
    [name |-> name,
     value |-> IF checked THEN <<optionValue>> \o value ELSE Filter(value, optionValue),
     type |-> "checkbox"]

\* CheckboxGroup.handleChange for the native event {checked, value: optionValue}
CheckboxGroup_handleChange(name, value, checked, optionValue) ==
    [name |-> name,
     value |-> IF checked THEN Append(value, optionValue) ELSE Filter(value, optionValue),
     type |-> "checkbox"]

\* variant: the Toggle passes on the checked value it received
handleToggle_NotInverted(name, checked) ==
    [name |-> name, type |-> "checkbox", checked |-> checked]

\* Toggle.handleToggle
handleToggle(name, checked) ==
    [name |-> name, type |-> "checkbox", checked |-> ~checked]

(***************************************************************************)
(* LoginSystem.handleChange: the two state updates it queues, each         *)
(* computed from the formData / errors of the render that made the handler.*)
(***************************************************************************)
HasName(e) == "name" \in DOMAIN e /\ e.name # ""

\* variant: setFormData({ [name]: ... }) without the ...formData spread
handleChange_formData_NoSpread(fd, e) ==
    IF HasName(e)
    THEN (e.name :> (IF Field(e, "type") = "checkbox" /\ "checked" \in DOMAIN e
                     THEN e.checked ELSE Field(e, "value")))
    ELSE fd

handleChange_formData(fd, e) ==
    IF HasName(e)
    THEN (e.name :> (IF Field(e, "type") = "checkbox" /\ "checked" \in DOMAIN e
                     THEN e.checked
                     ELSE Field(e, "value"))) @@ fd
    ELSE fd

\* variant: setErrors({ ...errors, [name]: '' }) without the errors[name] test
handleChange_errors_Unguarded(errs, e) ==
    IF HasName(e) THEN (e.name :> "") @@ errs ELSE errs

\* errors[name] is truthy: the key is present with a non-empty message
handleChange_errors(errs, e) ==
    IF HasName(e) /\ e.name \in DOMAIN errs /\ errs[e.name] # ""
    THEN (e.name :> "") @@ errs
    ELSE errs

(***************************************************************************)
(* Submission.                                                             *)
(***************************************************************************)
ToUpperCase(c) ==
    CASE c = "l" -> "L" [] c = "r" -> "R" [] c = "f" -> "F" [] OTHER -> c

\* formType.charAt(0).toUpperCase() + formType.slice(1)
Capitalize(s) == ToUpperCase(CharAt(s, 1)) \o SubSeq(s, 2, Len(s))

\* variant: the log and the alert outside the if (validateForm()) block
LoginSystem_handleSubmit_Unconditional(ft, fd) ==
    [errors |-> validateForm(ft, fd),
     logged |-> <<fd>>,
     alert |-> <<Capitalize(ft) \o " successful!">>]

\* LoginSystem.handleSubmit: validateForm() stores the fresh map; the log and
\* the alert happen when it returned true
LoginSystem_handleSubmit(ft, fd) ==
    LET newErrors == validateForm(ft, fd)
        passed == Cardinality(DOMAIN newErrors) = 0
    IN  [errors |-> newErrors,
         logged |-> IF passed THEN <<fd>> ELSE <<>>,
         alert |-> IF passed THEN <<Capitalize(ft) \o " successful!">> ELSE <<>>]

\* variant: onSubmit called whatever isValid is
Form_handleSubmit_NoGate(isValid, hasOnSubmit) ==
    [prevented |-> TRUE, invoked |-> hasOnSubmit]

\* Form.handleSubmit: e.preventDefault(), then onSubmit(e) behind the gate
Form_handleSubmit(isValid, hasOnSubmit) ==
    [prevented |-> TRUE, invoked |-> isValid /\ hasOnSubmit]

(***************************************************************************)
(* The user gesture of a step: its kind, the control, link or Select       *)
(* instance it lands on, and the change events passed to onChange in it.   *)
(***************************************************************************)
Gesture(kind, target, events) == [kind |-> kind, target |-> target, events |-> events]

NoGesture == Gesture("none", "", <<>>)

(***************************************************************************)
(* Select.  An instance is named by a letter; LoginSystem renders one, the *)
(* role Select, in register mode.                                          *)
(***************************************************************************)
roleOptions ==
    << [value |-> "user", label |-> "Regular User"],
       [value |-> "admin", label |-> "Administrator"],
       [value |-> "editor", label |-> "Content Editor"] >>

RoleSelect == "A"

\* <Select label="Role" name="role" options={roleOptions} ... enableSearch />
RoleSelectProps == [name |-> "role", options |-> roleOptions, enableSearch |-> TRUE]

NoSelects == [i \in {} |-> [isOpen |-> FALSE, searchTerm |-> ""]]

\* useState(false), useState('') of a fresh instance
Select_mount(sel, id) == (id :> [isOpen |-> FALSE, searchTerm |-> ""]) @@ sel

\* the instance's state is discarded with it
Select_unmount(sel, id) == [i \in DOMAIN sel \ {id} |-> sel[i]]

\* useEffect(..., []) at mount: document.addEventListener('mousedown', handleClickOutside)
Select_effect(ls, id) == Append(ls, id)

\* variant: an effect that returns no cleanup
Select_cleanup_Missing(ls, id) == ls

\* its cleanup at unmount: document.removeEventListener('mousedown',
\* handleClickOutside) removes the one listener this mount registered
Select_cleanup(ls, id) ==
    LET at == {i \in 1..Len(ls) : ls[i] = id}
    IN  IF at = {} THEN ls
        ELSE LET k == CHOOSE i \in at : \A j \in at : j <= i
             IN  SubSeq(ls, 1, k - 1) \o SubSeq(ls, k + 1, Len(ls))

\* a second instance, for a page that renders two: no search box
SecondSelect == "B"

marketingSelectOptions ==
    << [value |-> "email", label |-> "Email newsletters"],
       [value |-> "sms", label |-> "SMS notifications"],
       [value |-> "none", label |-> "No marketing"] >>

SecondSelectProps ==
    [name |-> "marketingPreferences", options |-> marketingSelectOptions,
     enableSearch |-> FALSE]

SelectProps(id) == IF id = RoleSelect THEN RoleSelectProps ELSE SecondSelectProps

UpperLetters == "ABCDEFGHIJKLMNOPQRSTUVWXYZ"
LowerLetters == "abcdefghijklmnopqrstuvwxyz"

\* String.prototype.toLowerCase on the letters A-Z
LowerChar(c) ==
    LET at == {i \in 1..Len(UpperLetters) : CharAt(UpperLetters, i) = c}
    IN  IF at = {} THEN c ELSE CharAt(LowerLetters, CHOOSE i \in at : TRUE)

RECURSIVE toLowerCase(_)
toLowerCase(s) ==
    IF s = "" THEN "" ELSE LowerChar(CharAt(s, 1)) \o toLowerCase(SubSeq(s, 2, Len(s)))

\* String.prototype.includes
StrIncludes(s, t) ==
    \E i \in 0..(Len(s) - Len(t)) : SubSeq(s, i + 1, i + Len(t)) = t

\* variant: the filter compares label and searchTerm as written
filteredOptions_CaseSensitive(props, searchTerm) ==
    IF props.enableSearch
    THEN SelectSeq(props.options, LAMBDA opt : StrIncludes(opt.label, searchTerm))
    ELSE props.options

\* filteredOptions of a render with this searchTerm
filteredOptions(props, searchTerm) ==
    IF props.enableSearch
    THEN SelectSeq(props.options,
                   LAMBDA opt : StrIncludes(toLowerCase(opt.label), toLowerCase(searchTerm)))
    ELSE props.options

\* the <li> rows of the open popover: one per filtered option, each with an
\* onClick, or the single "No options found" row, which has none
Select_rows(props, searchTerm) ==
    LET shown == filteredOptions(props, searchTerm)
    IN  IF Len(shown) > 0
        THEN [i \in 1..Len(shown) |->
                 [label |-> shown[i].label, value |-> shown[i].value, onClick |-> TRUE]]
        ELSE << [label |-> "No options found", value |-> "", onClick |-> FALSE] >>

\* the synthetic event of an option's onClick
SelectEvent(name, value) == [name |-> name, value |-> value]

\* variant: the listener closes the popover wherever the mousedown lands
handleClickOutside_NoContains(st, id, target) == [st EXCEPT !.isOpen = FALSE]

\* handleClickOutside of instance id for a mousedown whose target is inside the
\* element of instance `target` (or inside none: "outside")
handleClickOutside(st, id, target) ==
    IF target # id THEN [st EXCEPT !.isOpen = FALSE] ELSE st

(***************************************************************************)
(* Inputs the user types or picks in the model.                            *)
(***************************************************************************)
EmailInputs == {"", "bad-format", "a@b.c"}
PasswordInputs == {"", "short1", "abc12345"}
ConfirmInputs == {"", "abc12345", "abc12346"}
NameInputs == {"", "John Doe"}
BioInputs == {"", "Hi"}
SearchInputs == {"", "admin", "T", "zzz"}
InterestInputs == {interestOptions[1], interestOptions[3]}

Offered(options) ==
    {options[i] : i \in 1..(IF NumOptions < Len(options) THEN NumOptions ELSE Len(options))}

(***************************************************************************)
(* Actions.                                                                *)
(***************************************************************************)
Init ==
    /\ formType = "login"
    /\ formData = InitialFormData
    /\ errors = EmptyErrors
    /\ effect = NoEffect
    /\ selects = NoSelects
    /\ listeners = <<>>
    /\ gesture = NoGesture

\* one change event delivered to LoginSystem.handleChange.  A control fires
\* onChange when the user gives it a value other than the one it shows.
Change(e) ==
    /\ formData' = handleChange_formData(formData, e)
    /\ errors' = handleChange_errors(errors, e)
    /\ effect' = NoEffect
    /\ gesture' = Gesture("change", e.name, <<e>>)
    /\ UNCHANGED <<formType, selects, listeners>>

ChangeEmail ==
    \E v \in EmailInputs :
        v # formData.email /\ Change(InputEvent("email", "email", v))

ChangePassword ==
    /\ formType # "forgot"
    /\ \E v \in PasswordInputs :
          v # formData.password /\ Change(InputEvent("password", "password", v))

ChangeConfirmPassword ==
    /\ formType = "register"
    /\ \E v \in ConfirmInputs :
          v # formData.confirmPassword /\ Change(InputEvent("confirmPassword", "password", v))

ChangeName ==
    /\ formType = "register"
    /\ \E v \in NameInputs :
          v # formData.name /\ Change(InputEvent("name", "text", v))

ChangeGender ==
    /\ formType = "register"
    /\ \E v \in Offered(genderOptions) :
          v # formData.gender /\ Change(RadioEvent("gender", v))

ChangeInterests ==
    /\ formType = "register"
    /\ \E v \in InterestInputs :
          Change(CheckboxGroup_handleChange("interests", formData.interests,
                                            ~Includes(formData.interests, v), v))

ChangeMarketingPreferences ==
    /\ formType = "register"
    /\ \E v \in Offered(marketingOptions) :
          v # formData.marketingPreferences
              /\ Change(RadioEvent("marketingPreferences", v))

ChangeBio ==
    /\ formType = "register"
    /\ \E v \in BioInputs :
          v # formData.bio /\ Change(TextareaEvent("bio", v))

ChangeAcceptTerms ==
    /\ formType = "register"
    /\ Change(CheckboxEvent("acceptTerms", formData.acceptTerms))

ChangeRememberMe ==
    /\ formType = "login"
    /\ Change(handleToggle("rememberMe", formData.rememberMe))

\* the rows each instance renders, by the searchTerm of the render
RenderedRows ==
    [id \in {RoleSelect, SecondSelect} |->
        [t \in SearchInputs |-> Select_rows(SelectProps(id), t)]]

\* variant: the trigger button also calls setSearchTerm('')
Select_clickTrigger_ClearsSearch(id) ==
    /\ id \in DOMAIN selects
    /\ selects' = [selects EXCEPT ![id] = [isOpen |-> ~selects[id].isOpen, searchTerm |-> ""]]
    /\ effect' = NoEffect
    /\ gesture' = Gesture("trigger", id, <<>>)
    /\ UNCHANGED <<formType, formData, errors, listeners>>

\* the trigger button of a mounted Select: setIsOpen(!isOpen)
Select_clickTrigger(id) ==
    /\ id \in DOMAIN selects
    /\ selects' = [selects EXCEPT ![id].isOpen = ~selects[id].isOpen]
    /\ effect' = NoEffect
    /\ gesture' = Gesture("trigger", id, <<>>)
    /\ UNCHANGED <<formType, formData, errors, listeners>>

\* typing in the search box of an open Select: setSearchTerm(e.target.value)
Select_search(id) ==
    /\ id \in DOMAIN selects
    /\ selects[id].isOpen
    /\ SelectProps(id).enableSearch
    /\ \E t \in SearchInputs :
          /\ t # selects[id].searchTerm
          /\ selects' = [selects EXCEPT ![id].searchTerm = t]
    /\ effect' = NoEffect
    /\ gesture' = Gesture("search", id, <<>>)
    /\ UNCHANGED <<formType, formData, errors, listeners>>

\* variant: the option's onClick without setSearchTerm('')
Select_clickOption_KeepsSearch(id) ==
    /\ id \in DOMAIN selects
    /\ selects[id].isOpen
    /\ LET rows == RenderedRows[id][selects[id].searchTerm]
       IN  \E i \in 1..Len(rows) :
             /\ rows[i].onClick
             /\ LET e == SelectEvent(SelectProps(id).name, rows[i].value)
                IN  /\ formData' = handleChange_formData(formData, e)
                    /\ errors' = handleChange_errors(errors, e)
                    /\ gesture' = Gesture("option", id, <<e>>)
    /\ selects' = [selects EXCEPT ![id].isOpen = FALSE]
    /\ effect' = NoEffect
    /\ UNCHANGED <<formType, listeners>>

\* a click on a row of an open Select that has an onClick:
\* onChange({ target: { name, value } }); setIsOpen(false); setSearchTerm('')
Select_clickOption(id) ==
    /\ id \in DOMAIN selects
    /\ selects[id].isOpen
    /\ LET rows == RenderedRows[id][selects[id].searchTerm]
       IN  \E i \in 1..Len(rows) :
             /\ rows[i].onClick
             /\ LET e == SelectEvent(SelectProps(id).name, rows[i].value)
                IN  /\ formData' = handleChange_formData(formData, e)
                    /\ errors' = handleChange_errors(errors, e)
                    /\ gesture' = Gesture("option", id, <<e>>)
    /\ selects' = [selects EXCEPT ![id] = [isOpen |-> FALSE, searchTerm |-> ""]]
    /\ effect' = NoEffect
    /\ UNCHANGED <<formType, listeners>>

\* a mousedown on the document, inside the element of a mounted Select or
\* outside all of them: every registered handleClickOutside runs
MouseDown ==
    /\ \E target \in DOMAIN selects \cup {"outside"} :
          /\ selects' = [i \in DOMAIN selects |->
                            IF Includes(listeners, i)
                            THEN handleClickOutside(selects[i], i, target)
                            ELSE selects[i]]
          /\ gesture' = Gesture("mousedown", target, <<>>)
    /\ effect' = NoEffect
    /\ UNCHANGED <<formType, formData, errors, listeners>>

\* variant: the "Forgot your password?" button rendered in every mode
ClickForgotPassword_AnyMode ==
    /\ formType # "forgot"
    /\ formType' = "forgot"
    /\ effect' = NoEffect
    /\ gesture' = Gesture("link", "Forgot your password?", <<>>)
    /\ UNCHANGED <<formData, errors, selects, listeners>>

\* "Forgot your password?": setFormType('forgot') and nothing else
ClickForgotPassword ==
    /\ formType = "login"
    /\ formType' = "forgot"
    /\ effect' = NoEffect
    /\ gesture' = Gesture("link", "Forgot your password?", <<>>)
    /\ UNCHANGED <<formData, errors, selects, listeners>>

\* "Sign up": setFormType('register'); setErrors({}).  The register fields
\* render, so the role Select mounts.
ClickSignUp ==
    /\ formType = "login"
    /\ formType' = "register"
    /\ errors' = EmptyErrors
    /\ effect' = NoEffect
    /\ selects' = Select_mount(selects, RoleSelect)
    /\ listeners' = Select_effect(listeners, RoleSelect)
    /\ gesture' = Gesture("link", "Sign up", <<>>)
    /\ UNCHANGED formData

\* variant: leaving register mode also resets the value record
ClickSignIn_ResetsFormData ==
    /\ formType = "register"
    /\ formType' = "login"
    /\ errors' = EmptyErrors
    /\ effect' = NoEffect
    /\ selects' = Select_unmount(selects, RoleSelect)
    /\ listeners' = Select_cleanup(listeners, RoleSelect)
    /\ gesture' = Gesture("link", "Sign in", <<>>)
    /\ formData' = InitialFormData

\* "Sign in": setFormType('login'); setErrors({}).  The register fields no
\* longer render, so the role Select unmounts.
ClickSignIn ==
    /\ formType = "register"
    /\ formType' = "login"
    /\ errors' = EmptyErrors
    /\ effect' = NoEffect
    /\ selects' = Select_unmount(selects, RoleSelect)
    /\ listeners' = Select_cleanup(listeners, RoleSelect)
    /\ gesture' = Gesture("link", "Sign in", <<>>)
    /\ UNCHANGED formData

\* "Back to login": setFormType('login'); setErrors({})
ClickBackToLogin ==
    /\ formType = "forgot"
    /\ formType' = "login"
    /\ errors' = EmptyErrors
    /\ effect' = NoEffect
    /\ gesture' = Gesture("link", "Back to login", <<>>)
    /\ UNCHANGED <<formData, selects, listeners>>

\* variant: a submit whose side effect happened also resets the value record
Submit_ResetsOnSuccess ==
    LET gate == Form_handleSubmit(isFormValid(errors), TRUE)
        run == LoginSystem_handleSubmit(formType, formData)
    IN  /\ errors' = IF gate.invoked THEN run.errors ELSE errors
        /\ effect' = [prevented |-> gate.prevented,
                      invoked |-> gate.invoked,
                      logged |-> IF gate.invoked THEN run.logged ELSE <<>>,
                      alert |-> IF gate.invoked THEN run.alert ELSE <<>>]
        /\ gesture' = Gesture("submit", "form", <<>>)
        /\ formData' = IF gate.invoked /\ run.alert # <<>> THEN InitialFormData ELSE formData
        /\ UNCHANGED <<formType, selects, listeners>>

\* a submit event on the <form>: Form.handleSubmit with isValid={isFormValid}
\* and onSubmit={handleSubmit}
Submit ==
    LET gate == Form_handleSubmit(isFormValid(errors), TRUE)
        run == LoginSystem_handleSubmit(formType, formData)
    IN  /\ errors' = IF gate.invoked THEN run.errors ELSE errors
        /\ effect' = [prevented |-> gate.prevented,
                      invoked |-> gate.invoked,
                      logged |-> IF gate.invoked THEN run.logged ELSE <<>>,
                      alert |-> IF gate.invoked THEN run.alert ELSE <<>>]
        /\ gesture' = Gesture("submit", "form", <<>>)
        /\ UNCHANGED <<formType, formData, selects, listeners>>

(***************************************************************************)
(* Spec: the user works the validated controls, the "Remember me" toggle,  *)
(* the navigation links and the submit gesture.                            *)
(***************************************************************************)
Next ==
    \/ ChangeEmail
    \/ ChangePassword
    \/ ChangeConfirmPassword
    \/ ChangeName
    \/ ChangeGender
    \/ ChangeAcceptTerms
    \/ ChangeRememberMe
    \/ ClickForgotPassword
    \/ ClickSignUp
    \/ ClickSignIn
    \/ ClickBackToLogin
    \/ Submit

Spec == Init /\ [][Next]_vars

(***************************************************************************)
(* SpecBatch: change events may also arrive two in one task (a script such *)
(* as a password manager fills email and password and dispatches both      *)
(* input events before returning).  React renders once the task's handlers *)
(* have run, so both events reach the handleChange of the same render, with*)
(* the same formData and errors in its closure; each setFormData and       *)
(* setErrors call replaces the queued value, so the last call wins.        *)
(***************************************************************************)
\* the value a state cell takes once the queued set-calls are applied
LastSet(calls, current) == IF calls = <<>> THEN current ELSE calls[Len(calls)]

RECURSIVE setFormData_calls(_, _)
\* the arguments of the setFormData calls handleChange makes for the events es
setFormData_calls(fd, es) ==
    IF es = <<>> THEN <<>>
    ELSE (IF HasName(Head(es)) THEN << handleChange_formData(fd, Head(es)) >> ELSE <<>>)
            \o setFormData_calls(fd, Tail(es))

RECURSIVE setErrors_calls(_, _)
\* the arguments of the setErrors calls handleChange makes for the events es
setErrors_calls(errs, es) ==
    IF es = <<>> THEN <<>>
    ELSE (IF handleChange_errors(errs, Head(es)) # errs
          THEN << handleChange_errors(errs, Head(es)) >> ELSE <<>>)
            \o setErrors_calls(errs, Tail(es))

\* the events a script can dispatch to the email and password inputs
FillEvents(name) ==
    IF name = "email"
    THEN {InputEvent("email", "email", v) : v \in EmailInputs \ {formData.email}}
    ELSE {InputEvent("password", "password", v) : v \in PasswordInputs \ {formData.password}}

\* two change events for different fields handled before the next render
ChangeBatch ==
    /\ formType # "forgot"
    /\ \E first \in {"email", "password"} :
          \E e1 \in FillEvents(first) :
             \E e2 \in FillEvents(IF first = "email" THEN "password" ELSE "email") :
                /\ formData' = LastSet(setFormData_calls(formData, <<e1, e2>>), formData)
                /\ errors' = LastSet(setErrors_calls(errors, <<e1, e2>>), errors)
                /\ gesture' = Gesture("batch", "", <<e1, e2>>)
    /\ effect' = NoEffect
    /\ UNCHANGED <<formType, selects, listeners>>

NextBatch ==
    \/ ChangeEmail
    \/ ChangePassword
    \/ ChangeBatch
    \/ ClickForgotPassword
    \/ ClickBackToLogin
    \/ Submit

SpecBatch == Init /\ [][NextBatch]_vars

(***************************************************************************)
(* SpecControls: the user works the controls validation never looks at     *)
(* (interests, marketing preferences, bio, the role Select, "Remember      *)
(* me"), the name field, the terms checkbox, the navigation links and the  *)
(* submit gesture.                                                         *)
(***************************************************************************)
NextControls ==
    \/ ChangeName
    \/ ChangeInterests
    \/ ChangeMarketingPreferences
    \/ ChangeBio
    \/ ChangeAcceptTerms
    \/ ChangeRememberMe
    \/ Select_clickTrigger(RoleSelect)
    \/ Select_search(RoleSelect)
    \/ Select_clickOption(RoleSelect)
    \/ MouseDown
    \/ ClickForgotPassword
    \/ ClickSignUp
    \/ ClickSignIn
    \/ ClickBackToLogin
    \/ Submit

SpecControls == Init /\ [][NextControls]_vars

(***************************************************************************)
(* SpecSelects: a page that renders two Select instances side by side, A   *)
(* (the role Select) and B (no search box), both wired to handleChange;    *)
(* the user works the two instances and presses the mouse anywhere.        *)
(***************************************************************************)
InitSelects ==
    /\ formType = "register"
    /\ formData = InitialFormData
    /\ errors = EmptyErrors
    /\ effect = NoEffect
    /\ selects = Select_mount(Select_mount(NoSelects, RoleSelect), SecondSelect)
    /\ listeners = Select_effect(Select_effect(<<>>, RoleSelect), SecondSelect)
    /\ gesture = NoGesture

NextSelects ==
    \/ \E id \in {RoleSelect, SecondSelect} : Select_clickTrigger(id)
    \/ \E id \in {RoleSelect, SecondSelect} : Select_search(id)
    \/ \E id \in {RoleSelect, SecondSelect} : Select_clickOption(id)
    \/ MouseDown

SpecSelects == InitSelects /\ [][NextSelects]_vars

(***************************************************************************)
(* SpecValidate: one validation pass over bounded inputs.  The component   *)
(* is in any mode with an empty error map and a value record the change    *)
(* events above can produce; the only step is the submit gesture.  The     *)
(* inputs are two slices: every email over EmailAlphabet up to MaxEmailLen *)
(* with a few passwords, and every password / confirmation pair of         *)
(* PasswordStrings with the other validated fields both empty and filled.  *)
(***************************************************************************)
EmailAlphabet == {"a", "@", ".", " "}

PasswordStrings ==
    {Repeat("a", n) : n \in 0..MaxPwLen}
        \cup {Repeat("a", n - 1) \o "b" : n \in 1..MaxPwLen}

ValidateInputs ==
    {[InitialFormData EXCEPT !.email = e, !.password = p, !.confirmPassword = p,
                             !.name = n]
        : e \in StringsUpTo(EmailAlphabet, MaxEmailLen),
          p \in {"", "abc12345"}, n \in NameInputs}
    \cup
    {[InitialFormData EXCEPT !.email = e, !.password = p, !.confirmPassword = c,
                             !.name = n, !.gender = g, !.acceptTerms = t]
        : e \in {"", "a@b.c"}, p \in PasswordStrings, c \in PasswordStrings,
          n \in NameInputs, g \in {""} \cup Offered(genderOptions), t \in BOOLEAN}

InitValidate ==
    /\ formType \in FormTypes
    /\ formData \in ValidateInputs
    /\ errors = EmptyErrors
    /\ effect = NoEffect
    /\ selects = IF formType = "register" THEN Select_mount(NoSelects, RoleSelect)
                 ELSE NoSelects
    /\ listeners = IF formType = "register" THEN Select_effect(<<>>, RoleSelect)
                   ELSE <<>>
    /\ gesture = NoGesture

NextValidate == Submit

SpecValidate == InitValidate /\ [][NextValidate]_vars

(***************************************************************************)
(* Properties.                                                             *)
(***************************************************************************)
HasEntry(k, msg) == k \in DOMAIN errors /\ errors[k] = msg

\* the last step was a submit gesture
SubmitMade == effect # NoEffect

\* the placeholder submit side effect (console.log + alert) happened in the last step
SideEffect == effect.logged # <<>> \/ effect.alert # <<>>

\* s contains <non-space>+ '@' <non-space>+ '.' <non-space>+ : an '@' at p and
\* a '.' at q with a non-space before p, after q, and a non-empty run of
\* non-spaces between them
MatchesEmailPattern(s) ==
    \E p \in 1..Len(s), q \in 1..Len(s) :
        /\ 1 < p /\ p + 1 < q /\ q < Len(s)
        /\ CharAt(s, p) = "@"
        /\ CharAt(s, q) = "."
        /\ \A i \in ((p - 1)..(q + 1)) \ {p, q} : CharAt(s, i) \notin WhiteSpace

\* every validation rule of mode ft, stated on the values
RulesHold(ft, fd) ==
    /\ fd.email # "" /\ MatchesEmailPattern(fd.email)
    /\ ft # "forgot" => fd.password # ""
    /\ ft = "register" =>
          /\ Len(fd.password) >= 8
          /\ fd.confirmPassword = fd.password
          /\ fd.name # ""
          /\ fd.gender # ""
          /\ fd.acceptTerms

\* C1: every step that changes the mode leaves the error map empty.
C1_ModeSwitchClearsErrors ==
    [][formType' # formType => errors' = EmptyErrors]_vars

\* C2: a change of field f while the error map has an entry for f removes
\* exactly the key f from the map and leaves every other entry as it was.
C2_ChangeRemovesErrorKey ==
    [][\A f \in DOMAIN errors :
          (formType' = formType /\ formData'[f] # formData[f]) =>
              /\ DOMAIN errors' = DOMAIN errors \ {f}
              /\ \A g \in DOMAIN errors' : errors'[g] = errors[g]]_vars

\* C3: once every field that had an error has received a change event (its
\* message is cleared) and the values satisfy the rules of the mode, the
\* validity flag handed to the Form wrapper is true.
C3_FixedFormIsValid ==
    ((\A k \in DOMAIN errors : errors[k] = "") /\ RulesHold(formType, formData))
        => isFormValid(errors)

\* C4: the submit side effect happens only in a step whose validation pass
\* produced an empty error map, so never while a rule of the current mode is
\* violated by the current values.
C4_SideEffectOnlyWhenValid ==
    SideEffect => (errors = EmptyErrors /\ RulesHold(formType, formData))

C4_Witness ==
    /\ effect.alert = <<"Register successful!">>
    /\ effect.logged = <<formData>>

\* C5: every submit gesture suppresses the default action, and calls the
\* submit handler exactly when the validity flag of the state it was made in
\* is true.
C5_FormGate ==
    [][effect' # NoEffect =>
          (effect'.prevented /\ (effect'.invoked <=> isFormValid(errors)))]_vars

C5_Witness ==
    effect.prevented /\ ~effect.invoked /\ ~isFormValid(errors)

\* C6 as stated: after a submit gesture made with an empty email the error map
\* has email = "Email is required", and no side effect happened.
C6_EmptyEmailAlwaysRequired ==
    (SubmitMade /\ formData.email = "") =>
        (HasEntry("email", "Email is required") /\ ~SideEffect)

\* C6 amended: a submit gesture made with an empty email never performs the
\* side effect; made while the validity flag is true it leaves email =
\* "Email is required" in the error map, and made while the flag is false it
\* leaves the error map as it was.
C6_EmptyEmailBlocked ==
    [][(formData.email = "" /\ effect' # NoEffect) =>
          /\ effect'.logged = <<>> /\ effect'.alert = <<>>
          /\ isFormValid(errors) =>
                ("email" \in DOMAIN errors' /\ errors'.email = "Email is required")
          /\ ~isFormValid(errors) => errors' = errors]_vars

C6_Witness ==
    /\ formType = "forgot"
    /\ effect.invoked
    /\ formData.email = ""
    /\ HasEntry("email", "Email is required")

\* C7: a validation pass yields "Password is required" exactly when the mode
\* is not forgot and the password is empty, the length message exactly when
\* the mode is register and the password is non-empty and shorter than 8, and
\* no password entry otherwise.
C7_PasswordRule ==
    effect.invoked =>
        /\ HasEntry("password", "Password is required")
              <=> (formType # "forgot" /\ formData.password = "")
        /\ HasEntry("password", "Password must be at least 8 characters")
              <=> (formType = "register" /\ formData.password # ""
                     /\ Len(formData.password) < 8)
        /\ "password" \in DOMAIN errors =>
              errors.password \in {"Password is required",
                                   "Password must be at least 8 characters"}

C7_Witness ==
    /\ effect.invoked
    /\ formType = "register"
    /\ Len(formData.password) = 7
    /\ HasEntry("password", "Password must be at least 8 characters")

\* C8: a validation pass yields the confirmPassword entry exactly when the
\* mode is register and confirmPassword differs from password.
C8_ConfirmPasswordRule ==
    effect.invoked =>
        /\ "confirmPassword" \in DOMAIN errors
              <=> (formType = "register"
                     /\ formData.confirmPassword # formData.password)
        /\ "confirmPassword" \in DOMAIN errors =>
              errors.confirmPassword = "Passwords do not match"

C8_Witness ==
    /\ effect.invoked
    /\ formType = "register"
    /\ formData.password = "aaaaaaaa"
    /\ formData.confirmPassword = "aaaaaaab"
    /\ HasEntry("confirmPassword", "Passwords do not match")

\* C9: in every mode a validation pass yields "Email is required" exactly
\* when the email is empty, "Email is invalid" exactly when it is non-empty
\* and contains no match of the pattern, and no email entry otherwise.
C9_EmailRule ==
    effect.invoked =>
        /\ HasEntry("email", "Email is required") <=> formData.email = ""
        /\ HasEntry("email", "Email is invalid")
              <=> (formData.email # "" /\ ~MatchesEmailPattern(formData.email))
        /\ "email" \in DOMAIN errors =>
              errors.email \in {"Email is required", "Email is invalid"}

C9_Witness ==
    /\ effect.invoked
    /\ formType = "forgot"
    /\ formData.email = "a@a a"
    /\ HasEntry("email", "Email is invalid")

\* C10: a validation pass yields the name, gender and acceptTerms entries
\* exactly when the mode is register and the field is empty (name, gender) or
\* false (acceptTerms).
C10_RegisterRequiredRule ==
    effect.invoked =>
        /\ "name" \in DOMAIN errors <=> (formType = "register" /\ formData.name = "")
        /\ "gender" \in DOMAIN errors
              <=> (formType = "register" /\ formData.gender = "")
        /\ "acceptTerms" \in DOMAIN errors
              <=> (formType = "register" /\ ~formData.acceptTerms)
        /\ "name" \in DOMAIN errors => errors.name = "Name is required"
        /\ "gender" \in DOMAIN errors => errors.gender = "Gender is required"
        /\ "acceptTerms" \in DOMAIN errors =>
              errors.acceptTerms = "You must accept the terms"

C10_Witness ==
    /\ effect.invoked
    /\ formType = "register"
    /\ formData.name = "" /\ formData.gender # "" /\ formData.acceptTerms
    /\ DOMAIN errors \cap {"name", "gender", "acceptTerms"} = {"name"}

ValidatedFields == {"email", "password", "confirmPassword", "name", "gender", "acceptTerms"}

\* the value records that differ from fd at most in role, bio, interests,
\* marketingPreferences and rememberMe
UnvalidatedVariants(fd) ==
    {[fd EXCEPT !.role = r, !.bio = b, !.interests = i,
                !.marketingPreferences = m, !.rememberMe = k] :
        r \in {"user", "admin"}, b \in {"", "Hi"},
        i \in {<<>>, <<"technology", "music">>},
        m \in {"", "email"}, k \in BOOLEAN}

\* C11: the error map never has a key outside the six validated fields, and
\* the error map a validation pass produced is the one it produces for every
\* value record that differs only in role, bio, interests,
\* marketingPreferences or rememberMe.
C11_UnvalidatedFieldsNeverFail ==
    /\ DOMAIN errors \subseteq ValidatedFields
    /\ effect.invoked =>
          \A fd \in UnvalidatedVariants(formData) : validateForm(formType, fd) = errors

C11_Witness ==
    /\ effect.invoked
    /\ formType = "register"
    /\ formData.role = "editor"
    /\ formData.bio = "Hi"
    /\ formData.interests = <<"music", "technology">>
    /\ formData.marketingPreferences # ""
    /\ formData.rememberMe
    /\ formData.acceptTerms
    /\ DOMAIN errors = {"email", "password", "name", "gender"}

\* what the claim says a change event stores under its name
StoredBy(e) ==
    IF "type" \in DOMAIN e /\ e.type = "checkbox" /\ "checked" \in DOMAIN e
    THEN e.checked
    ELSE e.value

\* C12: a step that delivers a change event stores under the event's name its
\* checked flag when the type is "checkbox" and the flag is present, and its
\* value otherwise, and leaves every other field of the value record as it was.
C12_ChangeStoresCheckedOrValue ==
    [][\A i \in 1..Len(gesture'.events) :
          LET e == gesture'.events[i]
          IN  /\ DOMAIN formData' = DOMAIN formData
              /\ formData'[e.name] = StoredBy(e)
              /\ \A k \in DOMAIN formData \ {e.name} : formData'[k] = formData[k]]_vars

C12_Witness ==
    /\ Len(gesture.events) = 1
    /\ LET e == gesture.events[1]
       IN  /\ e.name = "interests"
           /\ e.type = "checkbox" /\ "checked" \notin DOMAIN e
           /\ Len(e.value) = 2
           /\ formData.interests = e.value
    /\ formData.rememberMe
    /\ formData.acceptTerms
    /\ formData.role = "admin"
    /\ formData.name = "John Doe"
    /\ formData.bio = "Hi"
    /\ formData.marketingPreferences # ""

\* seq without its element at position p
DropAt(seq, p) == [i \in 1..(Len(seq) - 1) |-> IF i < p THEN seq[i] ELSE seq[i + 1]]

\* C13: a Checkbox Group step, from the selected array S, stores either S
\* with an option not in S appended at the end, or S with one of its elements
\* dropped and the rest in order; and in every reachable state, checking and
\* then unchecking an option not in S emits S again.
C13_CheckboxGroupAddRemove ==
    /\ [][gesture'.target = "interests" =>
            LET S == formData.interests
                T == formData'.interests
            IN  /\ gesture'.events = << [name |-> "interests", value |-> T,
                                         type |-> "checkbox"] >>
                /\ \/ \E v \in InterestInputs :
                         ~(\E i \in 1..Len(S) : S[i] = v) /\ T = S \o <<v>>
                   \/ \E p \in 1..Len(S) : T = DropAt(S, p)]_vars
    /\ [](\A v \in InterestInputs :
            LET S == formData.interests
            IN  ~(\E i \in 1..Len(S) : S[i] = v) =>
                   LET on == CheckboxGroup_handleChange("interests", S, TRUE, v)
                       off == CheckboxGroup_handleChange("interests", on.value, FALSE, v)
                   IN  on.value = S \o <<v>> /\ off.value = S)

C13_Witness ==
    /\ gesture.target = "interests"
    /\ formData.interests = <<"technology", "music">>

\* a and b are the same character up to letter case
SameLetter(a, b) ==
    \/ a = b
    \/ \E i \in 1..Len(UpperLetters) :
          {a, b} = {CharAt(UpperLetters, i), CharAt(LowerLetters, i)}

\* term occurs in label at some offset, letter case ignored
ContainsIgnoringCase(label, term) ==
    \E off \in 0..(Len(label) - Len(term)) :
        \A j \in 1..Len(term) : SameLetter(CharAt(label, off + j), CharAt(term, j))

\* the rows of instance id's popover that can be clicked
SelectableRows(id) ==
    SelectSeq(RenderedRows[id][selects[id].searchTerm], LAMBDA row : row.onClick)

AsRow(opt) == [label |-> opt.label, value |-> opt.value, onClick |-> TRUE]

\* C14: in every open Select the clickable rows are, in the options' order,
\* the options whose label contains the search string up to letter case when
\* search is enabled, and all the options when it is not; with no match the
\* only row is "No options found" and it cannot be clicked; and an option
\* click only ever emits the value of an option that matches.
C14_SelectFilter ==
    /\ [](\A id \in DOMAIN selects :
            selects[id].isOpen =>
               LET props == SelectProps(id)
                   term == selects[id].searchTerm
                   rows == RenderedRows[id][term]
                   matching == SelectSeq(props.options,
                                         LAMBDA opt : ContainsIgnoringCase(opt.label, term))
               IN  /\ props.enableSearch =>
                         /\ Len(SelectableRows(id)) = Len(matching)
                         /\ \A i \in 1..Len(matching) :
                               SelectableRows(id)[i] = AsRow(matching[i])
                         /\ term = "" => Len(SelectableRows(id)) = Len(props.options)
                         /\ (term = "admin" /\ props.options = roleOptions) =>
                               SelectableRows(id) = << AsRow(roleOptions[2]) >>
                         /\ Len(matching) = 0 =>
                               /\ Len(rows) = 1
                               /\ rows[1].label = "No options found"
                               /\ ~rows[1].onClick
                         /\ Len(matching) > 0 => rows = SelectableRows(id)
                   /\ ~props.enableSearch =>
                         /\ Len(rows) = Len(props.options)
                         /\ \A i \in 1..Len(rows) : rows[i] = AsRow(props.options[i]))
    /\ [][gesture'.kind = "option" =>
            LET id == gesture'.target
                props == SelectProps(id)
            IN  \E i \in 1..Len(props.options) :
                   /\ props.enableSearch =>
                         ContainsIgnoringCase(props.options[i].label, selects[id].searchTerm)
                   /\ gesture'.events = << [name |-> props.name,
                                            value |-> props.options[i].value] >>]_vars

C14_Witness ==
    /\ selects[RoleSelect].isOpen
    /\ selects[RoleSelect].searchTerm = "admin"
    /\ Len(SelectableRows(RoleSelect)) = 1
    /\ selects[SecondSelect].isOpen
    /\ Len(SelectableRows(SecondSelect)) = 3

\* C15: a click on a listed option of an open Select emits one event, with the
\* keys name and value only, the Select's name and the value of a row that was
\* listed, and leaves that Select closed with an empty search string; a click
\* on the trigger button negates isOpen, keeps the search string and emits
\* nothing.
C15_OptionAndTriggerClicks ==
    [][/\ gesture'.kind = "option" =>
             LET id == gesture'.target
             IN  /\ selects[id].isOpen
                 /\ Len(gesture'.events) = 1
                 /\ DOMAIN gesture'.events[1] = {"name", "value"}
                 /\ gesture'.events[1].name = SelectProps(id).name
                 /\ \E i \in 1..Len(SelectableRows(id)) :
                       gesture'.events[1].value = SelectableRows(id)[i].value
                 /\ formData'[SelectProps(id).name] = gesture'.events[1].value
                 /\ ~selects'[id].isOpen
                 /\ selects'[id].searchTerm = ""
       /\ gesture'.kind = "trigger" =>
             LET id == gesture'.target
             IN  /\ selects'[id].isOpen = ~selects[id].isOpen
                 /\ selects'[id].searchTerm = selects[id].searchTerm
                 /\ gesture'.events = <<>>
                 /\ formData' = formData]_vars

C15_Witness ==
    /\ gesture = Gesture("option", RoleSelect, << [name |-> "role", value |-> "editor"] >>)
    /\ formData.role = "editor"
    /\ ~selects[RoleSelect].isOpen
    /\ selects[RoleSelect].searchTerm = ""

\* how many registered listeners belong to instance id
ListenersOf(id) == Cardinality({i \in 1..Len(listeners) : listeners[i] = id})

\* C16: in every reachable state each mounted Select has exactly one
\* registered listener and nothing else is registered, the role Select is
\* mounted exactly in register mode; and the listeners change only when
\* register mode is entered (one is added) or left (it is removed).
C16_OneListenerPerMountedSelect ==
    /\ [](/\ \A id \in DOMAIN selects : ListenersOf(id) = 1
          /\ Len(listeners) = Cardinality(DOMAIN selects)
          /\ DOMAIN selects = IF formType = "register" THEN {RoleSelect} ELSE {}
          /\ formType # "register" => Len(listeners) = 0)
    /\ [][listeners' # listeners =>
            \/ /\ formType # "register" /\ formType' = "register"
               /\ listeners' = Append(listeners, RoleSelect)
            \/ /\ formType = "register" /\ formType' # "register"
               /\ Len(listeners') = Len(listeners) - 1]_vars

C16_Witness ==
    /\ formType = "register"
    /\ gesture = Gesture("link", "Sign up", <<>>)
    /\ formData.role = "admin"
    /\ formData.interests # <<>>
    /\ ListenersOf(RoleSelect) = 1
    /\ Len(listeners) = 1

\* C17: with two Selects mounted, a mousedown inside one leaves that one's
\* isOpen as it was and leaves the other closed, a mousedown outside both
\* leaves both closed, no mousedown touches a search string, and a trigger
\* click, a search input or an option click on one instance leaves the other
\* instance's isOpen and searchTerm as they were.
C17_InstancesAreIsolated ==
    [][/\ DOMAIN selects' = DOMAIN selects
       /\ gesture'.kind = "mousedown" =>
             \A id \in DOMAIN selects :
                /\ selects'[id].isOpen =
                      (IF gesture'.target = id THEN selects[id].isOpen ELSE FALSE)
                /\ selects'[id].searchTerm = selects[id].searchTerm
       /\ gesture'.kind \in {"trigger", "search", "option"} =>
             \A other \in DOMAIN selects \ {gesture'.target} :
                selects'[other] = selects[other]]_vars

C17_Witness ==
    /\ DOMAIN selects = {RoleSelect, SecondSelect}
    /\ gesture = Gesture("mousedown", RoleSelect, <<>>)
    /\ selects[RoleSelect] = [isOpen |-> TRUE, searchTerm |-> "T"]
    /\ ~selects[SecondSelect].isOpen
    /\ formData.marketingPreferences = "sms"

\* C18: a Toggle step emits one event of type "checkbox" whose checked flag is
\* the negation of the rememberMe the Toggle was rendered with, and stores it,
\* so rememberMe is flipped; and from every reachable state two activations
\* in a row give the value record back.
C18_ToggleInverts ==
    /\ [][gesture'.target = "rememberMe" =>
            /\ gesture'.events = << [name |-> "rememberMe", type |-> "checkbox",
                                     checked |-> ~formData.rememberMe] >>
            /\ formData'.rememberMe = ~formData.rememberMe]_vars
    /\ [](LET once == handleChange_formData(formData,
                          handleToggle("rememberMe", formData.rememberMe))
              twice == handleChange_formData(once,
                          handleToggle("rememberMe", once.rememberMe))
          IN  once.rememberMe = ~formData.rememberMe /\ twice = formData)

C18_Witness ==
    /\ formType = "login"
    /\ gesture = Gesture("change", "rememberMe",
                         << [name |-> "rememberMe", type |-> "checkbox", checked |-> FALSE] >>)
    /\ ~formData.rememberMe

\* C19: a step that changes the mode leaves every field of the value record
\* as it was.
C19_ModeSwitchKeepsValues ==
    [][(formType' # formType \/ gesture'.kind = "link") => formData' = formData]_vars

C19_Witness ==
    /\ formType = "forgot"
    /\ gesture.kind = "link"
    /\ formData.name = "John Doe"
    /\ formData.interests = <<"music", "technology">>
    /\ formData.role = "admin"
    /\ formData.bio = "Hi"
    /\ formData.acceptTerms

\* the rule of field k fails on the values fd in mode ft
FailsRule(ft, fd, k) ==
    CASE k = "email" -> fd.email = "" \/ ~MatchesEmailPattern(fd.email)
      [] k = "password" ->
            \/ ft # "forgot" /\ fd.password = ""
            \/ ft = "register" /\ Len(fd.password) < 8
      [] k = "confirmPassword" -> ft = "register" /\ fd.password # fd.confirmPassword
      [] k = "name" -> ft = "register" /\ fd.name = ""
      [] k = "gender" -> ft = "register" /\ fd.gender = ""
      [] k = "acceptTerms" -> ft = "register" /\ ~fd.acceptTerms
      [] OTHER -> FALSE

\* C20: a step without a validation pass (a change event, a link, a blocked
\* submit) adds no key to the error map and leaves every non-empty message as
\* it was; a step with a validation pass leaves a non-empty message only under
\* the fields whose rule fails on the values validated.  So a message present
\* in a state was put there by the most recent pass, which failed for it.
C20_MessagesOnlyFromValidation ==
    [][IF effect'.invoked
       THEN \A k \in DOMAIN errors' :
               errors'[k] # "" /\ FailsRule(formType, formData, k)
       ELSE /\ DOMAIN errors' \subseteq DOMAIN errors
            /\ \A k \in DOMAIN errors' : errors'[k] # "" => errors'[k] = errors[k]]_vars

C20_Witness ==
    /\ gesture.kind = "change"
    /\ gesture.target = "email"
    /\ formData.email = "a@b.c"
    /\ HasEntry("email", "")
    /\ HasEntry("password", "Password is required")

\* no gesture has been handled yet: the state is the one of the mount
AtMount == gesture = NoGesture

\* C21: at mount the mode is login, role is "user", the other string fields
\* are empty, rememberMe and acceptTerms are false, interests is empty and the
\* error map is empty, so the validity flag is true; the error map stays empty
\* through every step that runs no validation pass, and a submit gesture made
\* with an empty error map runs one: the first submit gesture always does.
C21_MountState ==
    /\ [](AtMount =>
            /\ formType = "login"
            /\ DOMAIN formData = {"email", "password", "confirmPassword", "name",
                                  "gender", "role", "rememberMe", "acceptTerms",
                                  "bio", "interests", "marketingPreferences"}
            /\ \A k \in {"email", "password", "confirmPassword", "name", "gender",
                         "bio", "marketingPreferences"} : formData[k] = ""
            /\ formData.role = "user"
            /\ formData.rememberMe = FALSE
            /\ formData.acceptTerms = FALSE
            /\ formData.interests = <<>>
            /\ DOMAIN errors = {}
            /\ isFormValid(errors))
    /\ [][/\ (DOMAIN errors = {} /\ ~effect'.invoked) => DOMAIN errors' = {}
          /\ (DOMAIN errors = {} /\ gesture'.kind = "submit") => effect'.invoked
          /\ (AtMount /\ gesture'.kind = "submit") =>
                errors' = [email |-> "Email is required",
                           password |-> "Password is required"]]_vars

C21_Witness ==
    /\ gesture.kind = "submit"
    /\ effect.invoked
    /\ formType = "login"
    /\ formData.role = "user"
    /\ formData.email = "" /\ formData.password = ""
    /\ errors = [email |-> "Email is required", password |-> "Password is required"]

\* the navigation links: mode they show in, mode they lead to, their text
NavigationLinks ==
    { <<"login", "register", "Sign up">>,
      <<"login", "forgot", "Forgot your password?">>,
      <<"register", "login", "Sign in">>,
      <<"forgot", "login", "Back to login">> }

\* C22: a step changes the mode only as one of the four navigation links
\* does (login to register, login to forgot, register to login, forgot to
\* login); a step that handles a change event or a submit gesture, blocked,
\* failed or successful, leaves the mode as it was.
C22_ModeChangesOnlyByLinks ==
    [][/\ formType' # formType =>
             /\ gesture'.kind = "link"
             /\ <<formType, formType', gesture'.target>> \in NavigationLinks
       /\ gesture'.kind = "link" =>
             <<formType, formType', gesture'.target>> \in NavigationLinks
       /\ gesture'.kind # "link" => formType' = formType]_vars

C22_Witness ==
    /\ formType = "login"
    /\ effect.alert = <<"Login successful!">>
    /\ gesture.kind = "submit"
    /\ formData.name = "John Doe"

\* C23: a submit gesture made while the error map has at least one key leaves
\* the value record, the mode and the error map (and the Selects) as they
\* were, runs no validation pass, and neither logs nor alerts.
C23_BlockedSubmitChangesNothing ==
    [][(gesture'.kind = "submit" /\ DOMAIN errors # {}) =>
          /\ formData' = formData
          /\ formType' = formType
          /\ errors' = errors
          /\ selects' = selects /\ listeners' = listeners
          /\ ~effect'.invoked
          /\ effect'.logged = <<>> /\ effect'.alert = <<>>]_vars

C23_Witness ==
    /\ gesture.kind = "submit"
    /\ effect.prevented /\ ~effect.invoked
    /\ formType = "login"
    /\ formData.email = "a@b.c" /\ formData.password = "abc12345"
    /\ errors = [email |-> "", password |-> ""]

\* C24: after a step that handles change events, each field for which it
\* handled one holds what the last of them carried, and every other field is
\* as it was, also when the step handles two events for different fields
\* before the next render.
C24_NoChangeEventLost ==
    [][LET es == gesture'.events
       IN  /\ \A i \in 1..Len(es) :
                 (\A j \in (i + 1)..Len(es) : es[j].name # es[i].name) =>
                    formData'[es[i].name] = StoredBy(es[i])
           /\ \A k \in DOMAIN formData :
                 (\A i \in 1..Len(es) : es[i].name # k) => formData'[k] = formData[k]]_vars

\* C25: a submit step whose side effect happened leaves the value record and
\* the mode as they were and the error map empty; and in the state it leaves,
\* one more submit gesture passes the gate, validates without errors and logs
\* and alerts the same values again.
C25_SuccessfulSubmitIsRepeatable ==
    /\ [][SideEffect' =>
            /\ formData' = formData
            /\ formType' = formType
            /\ DOMAIN errors' = {}]_vars
    /\ [](SideEffect =>
            LET gate == Form_handleSubmit(isFormValid(errors), TRUE)
                run == LoginSystem_handleSubmit(formType, formData)
            IN  /\ gate.invoked
                /\ DOMAIN run.errors = {}
                /\ run.logged = <<formData>> /\ run.logged = effect.logged
                /\ run.alert = effect.alert)

C25_Witness ==
    /\ gesture.kind = "submit"
    /\ formType = "forgot"
    /\ effect.alert = <<"Forgot successful!">>
    /\ effect.logged = <<formData>>
    /\ formData.email = "a@b.c"
    /\ DOMAIN errors = {}

\* C26: a mousedown or a trigger click leaves every Select's search string as
\* it was, emits no change event and changes no value; apart from the user's
\* own typing in the search box, the search string of a mounted Select changes
\* only in an option click on it, which empties it; a Select goes away only
\* when register mode is left and comes back closed with an empty search
\* string; and a Select reopened by its trigger lists the options matching the
\* search string it kept while closed.
C26_SearchTermSurvivesClosing ==
    /\ [][/\ gesture'.kind \in {"mousedown", "trigger"} =>
                /\ DOMAIN selects' = DOMAIN selects
                /\ \A id \in DOMAIN selects :
                      selects'[id].searchTerm = selects[id].searchTerm
                /\ gesture'.events = <<>>
                /\ formData' = formData
          /\ \A id \in DOMAIN selects \cap DOMAIN selects' :
                selects'[id].searchTerm # selects[id].searchTerm =>
                   /\ gesture'.target = id
                   /\ gesture'.kind \in {"search", "option"}
                   /\ gesture'.kind = "option" => selects'[id].searchTerm = ""
          /\ \A id \in DOMAIN selects \ DOMAIN selects' :
                formType = "register" /\ formType' # "register"
          /\ \A id \in DOMAIN selects' \ DOMAIN selects :
                selects'[id] = [isOpen |-> FALSE, searchTerm |-> ""]]_vars
    /\ [](\A id \in DOMAIN selects :
            (gesture = Gesture("trigger", id, <<>>) /\ selects[id].isOpen) =>
               LET matching == SelectSeq(SelectProps(id).options,
                                  LAMBDA opt : ContainsIgnoringCase(opt.label,
                                                                    selects[id].searchTerm))
               IN  /\ Len(SelectableRows(id)) = Len(matching)
                   /\ \A i \in 1..Len(matching) :
                         SelectableRows(id)[i].value = matching[i].value)

C26_Witness ==
    /\ formType = "register"
    /\ gesture = Gesture("trigger", RoleSelect, <<>>)
    /\ selects[RoleSelect] = [isOpen |-> TRUE, searchTerm |-> "admin"]
    /\ Len(SelectableRows(RoleSelect)) = 1

====
